---- MODULE Spec2Model ----
(***************************************************************************)
(* Model of the Bookstore Manager component (src/src/App.tsx).             *)
(*                                                                         *)
(* The component keeps six pieces of React state (books, isFormOpen,       *)
(* editingBook, formData, loading, error) and three asynchronous handlers  *)
(* (fetchBooks, handleSubmit, handleDelete).  An asynchronous handler runs *)
(* atomically up to its next `await fetch(...)`; the continuation runs     *)
(* atomically when the response is delivered.  Between the two, any other  *)
(* event of the page can run.  After an await the handlers use only state  *)
(* setters, so the continuation does not depend on a captured render.      *)
(*                                                                         *)
(* The REST server is an external collaborator: it handles one request at  *)
(* a time (ServerOk, ServerStatusError) and the response is consumed by    *)
(* the awaiting handler later, so responses can arrive in a different      *)
(* order than the requests were handled.                                   *)
(***************************************************************************)
EXTENDS Integers, Sequences, FiniteSets, TLC

VARIABLES
    books,        \* useState<Book[]>([])            App.tsx:21
    isFormOpen,   \* useState(false)                 App.tsx:22
    editingBook,  \* useState<Book | null>(null)     App.tsx:23
    formData,     \* useState<BookFormData>(...)     App.tsx:24
    loading,      \* useState(false)                 App.tsx:29
    error,        \* useState('')                    App.tsx:30
    mounted,      \* has the mount effect (App.tsx:48) run
    reqs,         \* the requests whose response the client still awaits
    mutations,    \* number of POST, PUT and DELETE requests issued so far
    gets,         \* number of GET /books requests issued so far
    okMutations,  \* number of success responses to a mutation consumed
    server,       \* the collection held by the REST server
    nextId,       \* the next id the server assigns
    lastConfirm   \* what the last confirm() dialog returned

vars == <<books, isFormOpen, editingBook, formData, loading, error,
          mounted, reqs, mutations, gets, okMutations, server, nextId,
          lastConfirm>>

\* the counters of past requests
counters == <<mutations, gets, okMutations>>

ui == <<books, isFormOpen, editingBook, formData, loading, error>>

-----------------------------------------------------------------------------
(* Bounds *)

\* number of mutations (submit with a valid draft, confirmed delete) started
MaxMutations == 2

(* Input alphabets of the text fields *)
BookNames == {"", "Dune"}
AuthorNames == {"", "Herbert"}
\* texts of the ISBN field, as sequences of characters
IsbnTexts == { <<>>, <<"1", "2">> }

-----------------------------------------------------------------------------
(* Messages set by the code *)

MsgLoad == "Failed to load books. Make sure API is running."
MsgRequired == "All fields are required"
MsgSave == "Failed to save book"
MsgDelete == "Failed to delete book"

-----------------------------------------------------------------------------
(* Values *)

\* editingBook === null
NullBook == [id |-> 0, book_name |-> "", author_name |-> "", isbn |-> 0]

EmptyForm == [book_name |-> "", author_name |-> "", isbn |-> <<>>]

\* the value parseInt returns when the text has no leading integer: a number
\* that is no integer, here one outside the range of the modelled integers
NaN == 0 - 999999999

NoBody == [book_name |-> "", author_name |-> "", isbn |-> 0]

\* the collection of the server when the page is opened
InitialServer ==
    { [id |-> 1, book_name |-> "Emma", author_name |-> "Herbert", isbn |-> 12] }

DigitChars == {"0", "1", "2", "3", "4", "5", "6", "7", "8", "9"}

DigitVal(c) ==
    CASE c = "0" -> 0 [] c = "1" -> 1 [] c = "2" -> 2 [] c = "3" -> 3
      [] c = "4" -> 4 [] c = "5" -> 5 [] c = "6" -> 6 [] c = "7" -> 7
      [] c = "8" -> 8 [] c = "9" -> 9

DigitChar(d) ==
    CASE d = 0 -> "0" [] d = 1 -> "1" [] d = 2 -> "2" [] d = 3 -> "3"
      [] d = 4 -> "4" [] d = 5 -> "5" [] d = 6 -> "6" [] d = 7 -> "7"
      [] d = 8 -> "8" [] d = 9 -> "9"

\* length of the longest prefix of s made of digits
RECURSIVE DigitPrefixLen(_)
DigitPrefixLen(s) ==
    IF s = <<>> \/ Head(s) \notin DigitChars THEN 0
    ELSE 1 + DigitPrefixLen(Tail(s))

RECURSIVE DigitsValue(_, _)
DigitsValue(s, n) ==
    IF n = 0 THEN 0
    ELSE 10 * DigitsValue(s, n - 1) + DigitVal(s[n])

\* parseInt(text): optional sign, then the longest run of decimal digits;
\* NaN when there is no digit.
parseInt(s) ==
    LET signed == s # <<>> /\ Head(s) \in {"-", "+"}
        rest == IF signed THEN Tail(s) ELSE s
        n == DigitPrefixLen(rest)
        v == DigitsValue(rest, n)
    IN  IF n = 0 THEN NaN
        ELSE IF signed /\ Head(s) = "-" THEN 0 - v ELSE v

RECURSIVE NatToText(_)
NatToText(n) ==
    IF n < 10 THEN <<DigitChar(n)>>
    ELSE NatToText(n \div 10) \o <<DigitChar(n % 10)>>

\* (mutant of toString: the sign is lost)
toStringNoSign(n) == IF n < 0 THEN NatToText(0 - n) ELSE NatToText(n)

\* Number.prototype.toString for an integer
toString(n) ==
    IF n < 0 THEN <<"-">> \o NatToText(0 - n) ELSE NatToText(n)

-----------------------------------------------------------------------------
(* Requests *)

Methods == {"GET", "POST", "PUT", "DELETE"}
MutationMethods == {"POST", "PUT", "DELETE"}

\* A request as issued by fetch(url, {method, body}), numbered in the order
\* of issue.  `caller` is the handler whose continuation awaits the response;
\* id and body are the locals url and bookData of that handler, which a GET
\* issued by fetchBooks on its behalf does not send.
Request(rid, caller, method, id, body) ==
    [rid |-> rid, caller |-> caller, method |-> method, id |-> id,
     body |-> body, status |-> "pending", data |-> {}]

\* the number of the next request
NextRid == mutations + gets + 1

-----------------------------------------------------------------------------
(* fetchBooks, App.tsx:32-46 *)

\* fetch(`${API_BASE_URL}/books`) issued by fetchBooks, called by the mount
\* effect
StartupFetch == Request(NextRid, "useEffect", "GET", 0, NoBody)

\* ... called by the handler that has consumed response r of its mutation
RefreshFetch(r) == Request(NextRid, r.caller, "GET", r.id, r.body)

\* (mutant of FetchedBooks: a failed fetch empties the list)
FetchedBooksClears(r, cur) == IF r.status = "ok" THEN r.data ELSE {}

\* books after fetchBooks has consumed response r
FetchedBooks(r, cur) == IF r.status = "ok" THEN r.data ELSE cur

\* (mutant of FetchedError: a failed fetch sets no error)
FetchedErrorSilent(r) == ""

\* error after fetchBooks has consumed response r
FetchedError(r) == IF r.status = "ok" THEN "" ELSE MsgLoad

-----------------------------------------------------------------------------
(* handleSubmit, App.tsx:52-91 *)

\* (mutant of DraftInvalid: the ISBN is not checked)
DraftInvalidNoIsbn(fd) ==
    fd.book_name = "" \/ fd.author_name = ""

\* the validation of App.tsx:55
DraftInvalid(fd) ==
    fd.book_name = "" \/ fd.author_name = "" \/ fd.isbn = <<>>

\* bookData, App.tsx:62-66
BookData(fd) ==
    [book_name |-> fd.book_name, author_name |-> fd.author_name,
     isbn |-> parseInt(fd.isbn)]

\* (mutant of SubmitMethod: every submit creates)
SubmitMethodAlwaysPost(eb) == "POST"

\* method, App.tsx:72
SubmitMethod(eb) == IF eb # NullBook THEN "PUT" ELSE "POST"

\* the id in url, App.tsx:68-70 (0: the collection url)
SubmitId(eb) == IF eb # NullBook THEN eb.id ELSE 0

-----------------------------------------------------------------------------
(* Initial state: the useState initialisers, before the mount effect *)

Init ==
    /\ books = {}
    /\ isFormOpen = FALSE
    /\ editingBook = NullBook
    /\ formData = EmptyForm
    /\ loading = FALSE
    /\ error = ""
    /\ mounted = FALSE
    /\ reqs = {}
    /\ mutations = 0
    /\ gets = 0
    /\ okMutations = 0
    /\ server = InitialServer
    /\ nextId = 2
    /\ lastConfirm = "none"

-----------------------------------------------------------------------------
(* Client events *)

\* useEffect(() => { fetchBooks(); }, [])  App.tsx:48-50, running
\* fetchBooks up to its await (App.tsx:34-35)
Mount ==
    /\ ~mounted
    /\ mounted' = TRUE
    /\ loading' = TRUE
    /\ reqs' = reqs \cup {StartupFetch}
    /\ gets' = gets + 1
    /\ UNCHANGED <<books, isFormOpen, editingBook, formData, error,
                   mutations, okMutations, server, nextId, lastConfirm>>

\* the Add Book button, App.tsx:139
AddBook ==
    /\ mounted
    /\ isFormOpen' = TRUE
    /\ UNCHANGED <<books, editingBook, formData, loading, error,
                   mounted, reqs, counters, server, nextId, lastConfirm>>

\* handleEdit, App.tsx:114-122; the button is rendered per displayed book
handleEdit(book) ==
    /\ book \in books
    /\ editingBook' = book
    /\ formData' = [book_name |-> book.book_name,
                    author_name |-> book.author_name,
                    isbn |-> toString(book.isbn)]
    /\ isFormOpen' = TRUE
    /\ UNCHANGED <<books, loading, error, mounted, reqs, counters,
                   server, nextId, lastConfirm>>

\* (mutant of resetForm: the record being edited is not cleared)
resetFormKeepsRecord ==
    /\ isFormOpen
    /\ formData' = EmptyForm
    /\ isFormOpen' = FALSE
    /\ UNCHANGED <<books, editingBook, loading, error, mounted, reqs, counters,
                   server, nextId, lastConfirm>>

\* resetForm, App.tsx:124-128, as the click handler of the X and Cancel
\* buttons (App.tsx:159, 214)
resetForm ==
    /\ isFormOpen
    /\ formData' = EmptyForm
    /\ editingBook' = NullBook
    /\ isFormOpen' = FALSE
    /\ UNCHANGED <<books, loading, error, mounted, reqs, counters,
                   server, nextId, lastConfirm>>

\* onChange of the three inputs, App.tsx:172, 185, 198
ChangeBookName(v) ==
    /\ isFormOpen
    /\ formData' = [formData EXCEPT !.book_name = v]
    /\ UNCHANGED <<books, isFormOpen, editingBook, loading, error,
                   mounted, reqs, counters, server, nextId, lastConfirm>>

ChangeAuthorName(v) ==
    /\ isFormOpen
    /\ formData' = [formData EXCEPT !.author_name = v]
    /\ UNCHANGED <<books, isFormOpen, editingBook, loading, error,
                   mounted, reqs, counters, server, nextId, lastConfirm>>

ChangeIsbn(v) ==
    /\ isFormOpen
    /\ formData' = [formData EXCEPT !.isbn = v]
    /\ UNCHANGED <<books, isFormOpen, editingBook, loading, error,
                   mounted, reqs, counters, server, nextId, lastConfirm>>

\* handleSubmit with a draft that fails the validation, App.tsx:55-58.
\* The form is submitted through its submit button, disabled while loading
\* (App.tsx:207).
SubmitInvalid ==
    /\ isFormOpen
    /\ ~loading
    /\ DraftInvalid(formData)
    /\ error' = MsgRequired
    /\ UNCHANGED <<books, isFormOpen, editingBook, formData, loading,
                   mounted, reqs, counters, server, nextId, lastConfirm>>

\* handleSubmit with a valid draft, up to its await, App.tsx:60-78
SubmitValid ==
    /\ isFormOpen
    /\ ~loading
    /\ ~DraftInvalid(formData)
    /\ mutations < MaxMutations
    /\ loading' = TRUE
    /\ reqs' = reqs \cup {Request(NextRid, "handleSubmit",
                                   SubmitMethod(editingBook),
                                   SubmitId(editingBook), BookData(formData))}
    /\ mutations' = mutations + 1
    /\ UNCHANGED <<books, isFormOpen, editingBook, formData, error,
                   mounted, gets, okMutations, server, nextId, lastConfirm>>

\* (mutant of DeleteDeclined: the handler goes on without confirmation)
DeleteDeclinedProceeds(id) ==
    /\ \E b \in books : b.id = id
    /\ mutations < MaxMutations
    /\ loading' = TRUE
    /\ reqs' = reqs \cup {Request(NextRid, "handleDelete", "DELETE", id, NoBody)}
    /\ mutations' = mutations + 1
    /\ lastConfirm' = "declined"
    /\ UNCHANGED <<books, isFormOpen, editingBook, formData, error,
                   mounted, gets, okMutations, server, nextId>>

\* handleDelete when confirm() returns false, App.tsx:94
DeleteDeclined(id) ==
    /\ \E b \in books : b.id = id
    /\ lastConfirm' = "declined"
    /\ UNCHANGED <<books, isFormOpen, editingBook, formData, loading, error,
                   mounted, reqs, counters, server, nextId>>

\* handleDelete when confirm() returns true, up to its await, App.tsx:94-100
DeleteConfirmed(id) ==
    /\ \E b \in books : b.id = id
    /\ mutations < MaxMutations
    /\ loading' = TRUE
    /\ reqs' = reqs \cup {Request(NextRid, "handleDelete", "DELETE", id, NoBody)}
    /\ mutations' = mutations + 1
    /\ lastConfirm' = "confirmed"
    /\ UNCHANGED <<books, isFormOpen, editingBook, formData, error,
                   mounted, gets, okMutations, server, nextId>>

-----------------------------------------------------------------------------
(* The REST server (spec section 6), an external collaborator *)

\* can the server answer request r with a success status
Acceptable(r) ==
    CASE r.method = "GET" -> TRUE
      [] r.method = "POST" -> r.body.isbn # NaN
      [] r.method = "PUT" -> r.body.isbn # NaN /\ \E b \in server : b.id = r.id
      [] r.method = "DELETE" -> TRUE

\* the collection after the server has carried out request r
Applied(r) ==
    CASE r.method = "GET" -> server
      [] r.method = "POST" ->
            server \cup {[id |-> nextId, book_name |-> r.body.book_name,
                          author_name |-> r.body.author_name,
                          isbn |-> r.body.isbn]}
      [] r.method = "PUT" ->
            {b \in server : b.id # r.id}
              \cup {[id |-> r.id, book_name |-> r.body.book_name,
                     author_name |-> r.body.author_name,
                     isbn |-> r.body.isbn]}
      [] r.method = "DELETE" -> {b \in server : b.id # r.id}

\* request r with its response
Answered(r, status, data) == [r EXCEPT !.status = status, !.data = data]

\* The server carries out request r and answers with a success status; a GET
\* is answered with the collection as it is at that moment.
ServerOk(r) ==
    /\ r \in reqs
    /\ r.status = "pending"
    /\ Acceptable(r)
    /\ server' = Applied(r)
    /\ nextId' = IF r.method = "POST" THEN nextId + 1 ELSE nextId
    /\ reqs' = (reqs \ {r})
                 \cup {Answered(r, "ok", IF r.method = "GET" THEN server ELSE {})}
    /\ UNCHANGED ui
    /\ UNCHANGED <<mounted, counters, lastConfirm>>

\* The server answers with a non-success status and changes nothing.  The
\* handlers treat !response.ok and a rejected fetch alike (both reach the
\* catch block), so a response is either "ok" or "failed".
ServerStatusError(r) ==
    /\ r \in reqs
    /\ r.status = "pending"
    /\ reqs' = (reqs \ {r}) \cup {Answered(r, "failed", {})}
    /\ UNCHANGED ui
    /\ UNCHANGED <<mounted, counters, server, nextId, lastConfirm>>

\* The request does not reach the server: fetch rejects.
TransportError(r) ==
    /\ r \in reqs
    /\ r.status = "pending"
    /\ reqs' = (reqs \ {r}) \cup {Answered(r, "failed", {})}
    /\ UNCHANGED ui
    /\ UNCHANGED <<mounted, counters, server, nextId, lastConfirm>>

-----------------------------------------------------------------------------
(* Continuations of the handlers *)

\* the response to r is ready for the handler that awaits it
Responded(r) == r \in reqs /\ r.status # "pending"

\* error when the handler that awaited fetchBooks has finished:
\* the mount effect does nothing after fetchBooks; handleSubmit (App.tsx:84)
\* and handleDelete (App.tsx:105) run setError('')
ErrorAfterFetch(r) ==
    IF r.caller = "useEffect" THEN FetchedError(r) ELSE ""

\* fetchBooks from its await to its end (App.tsx:35-45), then the rest of the
\* handler that awaited it: nothing for the mount effect
StartupFetchDone(r) ==
    /\ Responded(r)
    /\ r.method = "GET"
    /\ r.caller = "useEffect"
    /\ books' = FetchedBooks(r, books)
    /\ error' = ErrorAfterFetch(r)
    /\ loading' = FALSE
    /\ reqs' = reqs \ {r}
    /\ UNCHANGED <<isFormOpen, editingBook, formData, mounted, counters,
                   server, nextId, lastConfirm>>

\* ... then handleSubmit: resetForm(); setError(''); finally setLoading(false)
\* (App.tsx:82-84, 89)
SubmitRefreshDone(r) ==
    /\ Responded(r)
    /\ r.method = "GET"
    /\ r.caller = "handleSubmit"
    /\ books' = FetchedBooks(r, books)
    /\ formData' = EmptyForm
    /\ editingBook' = NullBook
    /\ isFormOpen' = FALSE
    /\ error' = ErrorAfterFetch(r)
    /\ loading' = FALSE
    /\ reqs' = reqs \ {r}
    /\ UNCHANGED <<mounted, counters, server, nextId, lastConfirm>>

\* ... then handleDelete: setError(''); finally setLoading(false)
\* (App.tsx:104-105, 110)
DeleteRefreshDone(r) ==
    /\ Responded(r)
    /\ r.method = "GET"
    /\ r.caller = "handleDelete"
    /\ books' = FetchedBooks(r, books)
    /\ error' = ErrorAfterFetch(r)
    /\ loading' = FALSE
    /\ reqs' = reqs \ {r}
    /\ UNCHANGED <<isFormOpen, editingBook, formData, mounted, counters,
                   server, nextId, lastConfirm>>

\* (mutant of RefreshAfter: the list is refreshed whatever the response)
RefreshAfterAlways(r) == TRUE

\* does the handler go on to fetchBooks after response r (App.tsx:80, 102)
RefreshAfter(r) == r.status = "ok"

\* the awaited requests after the handler has consumed response r of its
\* mutation: on success fetchBooks issues its GET in the same step
\* (App.tsx:82, 104)
AfterMutation(r) ==
    IF RefreshAfter(r) THEN (reqs \ {r}) \cup {RefreshFetch(r)} ELSE reqs \ {r}

\* the counters after the handler has consumed response r of its mutation
CountedAfterMutation(r) ==
    /\ okMutations' = IF r.status = "ok" THEN okMutations + 1 ELSE okMutations
    /\ gets' = IF RefreshAfter(r) THEN gets + 1 ELSE gets
    /\ UNCHANGED mutations

\* (mutant of SubmitResponse: the form is reset on the failure path too)
SubmitResponseResets(r) ==
    /\ Responded(r)
    /\ r.method \in {"POST", "PUT"}
    /\ reqs' = AfterMutation(r)
    /\ loading' = RefreshAfter(r)
    /\ error' = IF RefreshAfter(r) THEN error ELSE MsgSave
    /\ CountedAfterMutation(r)
    /\ formData' = IF RefreshAfter(r) THEN formData ELSE EmptyForm
    /\ editingBook' = IF RefreshAfter(r) THEN editingBook ELSE NullBook
    /\ isFormOpen' = (RefreshAfter(r) /\ isFormOpen)
    /\ UNCHANGED <<books, mounted, server, nextId, lastConfirm>>

\* handleSubmit from its await: App.tsx:74-82 and fetchBooks up to its
\* await on success, App.tsx:85-89 on failure
SubmitResponse(r) ==
    /\ Responded(r)
    /\ r.method \in {"POST", "PUT"}
    /\ reqs' = AfterMutation(r)
    /\ loading' = RefreshAfter(r)
    /\ error' = IF RefreshAfter(r) THEN error ELSE MsgSave
    /\ CountedAfterMutation(r)
    /\ UNCHANGED <<books, isFormOpen, editingBook, formData,
                   mounted, server, nextId, lastConfirm>>

\* (mutant of DeleteResponse: the failure path does not reach the finally
\* block, the busy flag stays set)
DeleteResponseKeepsBusy(r) ==
    /\ Responded(r)
    /\ r.method = "DELETE"
    /\ reqs' = AfterMutation(r)
    /\ loading' = TRUE
    /\ error' = IF RefreshAfter(r) THEN error ELSE MsgDelete
    /\ CountedAfterMutation(r)
    /\ UNCHANGED <<books, isFormOpen, editingBook, formData,
                   mounted, server, nextId, lastConfirm>>

\* handleDelete from its await: App.tsx:98-104 and fetchBooks up to its
\* await on success, App.tsx:106-110 on failure
DeleteResponse(r) ==
    /\ Responded(r)
    /\ r.method = "DELETE"
    /\ reqs' = AfterMutation(r)
    /\ loading' = RefreshAfter(r)
    /\ error' = IF RefreshAfter(r) THEN error ELSE MsgDelete
    /\ CountedAfterMutation(r)
    /\ UNCHANGED <<books, isFormOpen, editingBook, formData,
                   mounted, server, nextId, lastConfirm>>

-----------------------------------------------------------------------------

Next ==
    \/ Mount
    \/ AddBook
    \/ \E b \in books : handleEdit(b)
    \/ resetForm
    \/ \E v \in BookNames : ChangeBookName(v)
    \/ \E v \in AuthorNames : ChangeAuthorName(v)
    \/ \E v \in IsbnTexts : ChangeIsbn(v)
    \/ SubmitInvalid
    \/ SubmitValid
    \/ \E b \in books : DeleteDeclined(b.id)
    \/ \E b \in books : DeleteConfirmed(b.id)
    \/ \E r \in reqs : ServerOk(r)
    \/ \E r \in reqs : ServerStatusError(r)
    \/ \E r \in reqs : TransportError(r)
    \/ \E r \in reqs : StartupFetchDone(r)
    \/ \E r \in reqs : SubmitRefreshDone(r)
    \/ \E r \in reqs : DeleteRefreshDone(r)
    \/ \E r \in reqs : SubmitResponse(r)
    \/ \E r \in reqs : DeleteResponse(r)

Spec == Init /\ [][Next]_vars

-----------------------------------------------------------------------------
(* Vocabulary of the properties *)

\* the requests issued by the step
NewRequests == {q \in reqs' : \A r \in reqs : r.rid # q.rid}

\* the step delivers the response to request r to the handler awaiting it
Consumed(r) ==
    /\ r \in reqs
    /\ r.status # "pending"
    /\ \A q \in reqs' : q.rid # r.rid

\* some field of the draft is empty
AnyFieldEmpty ==
    formData.book_name = "" \/ formData.author_name = "" \/ formData.isbn = <<>>

\* the form is closed and holds no draft
Discarded(open, eb, fd) ==
    ~open /\ eb = NullBook
          /\ fd.book_name = "" /\ fd.author_name = "" /\ fd.isbn = <<>>

-----------------------------------------------------------------------------
(* C1 *)

\* C1 (as claimed): in every reachable state at most one request issued by
\* the client is awaiting its response.
C1_NoParallelRequests == Cardinality(reqs) <= 1

-----------------------------------------------------------------------------
(* C2 *)

\* C2 (as claimed): after a successful mutation, once every request the client
\* has issued has completed, the displayed list equals the collection of the
\* server.
C2_ListEqualsServer ==
    (okMutations > 0 /\ reqs = {}) => books = server

-----------------------------------------------------------------------------
(* C3 *)

\* C3 (as claimed): when the operation that ran a failed GET /books has
\* finished, the error is not empty; a successful GET replaces books with the
\* response and leaves the error empty.
C3_FailedFetchLeavesError ==
    [][\A r \in reqs :
          (r.method = "GET" /\ Consumed(r)) =>
              IF r.status = "failed" THEN error' # ""
              ELSE books' = r.data /\ error' = ""]_vars

-----------------------------------------------------------------------------
(* C4 *)

\* the step is a submit that sends the draft
SubmitIssued ==
    \E q \in NewRequests : q.caller = "handleSubmit" /\ q.method # "GET"

\* the submit button can be used
CanSubmit == isFormOpen /\ ~loading

\* C4: submitting while a field of the draft is empty issues no request and
\* sets the error to the validation message; the step that sets the
\* validation message changes nothing else.
C4_InvalidSubmit ==
    /\ [](CanSubmit /\ AnyFieldEmpty =>
             ENABLED (Next /\ error' = MsgRequired /\ UNCHANGED reqs))
    /\ [][/\ AnyFieldEmpty => ~SubmitIssued
          /\ (error' = MsgRequired /\ error # MsgRequired) =>
                /\ AnyFieldEmpty
                /\ UNCHANGED <<books, formData, editingBook, isFormOpen,
                               loading, reqs, counters>>]_vars

\* a partly filled draft has been submitted and rejected
C4_Witness ==
    /\ error = MsgRequired
    /\ isFormOpen
    /\ formData.book_name # "" /\ formData.isbn = <<>>
    /\ reqs = {} /\ mutations = 0 /\ ~loading

-----------------------------------------------------------------------------
(* C5 *)

\* C5: a submit of a draft with no empty field issues exactly one request: a
\* PUT addressed to the record being edited when there is one, a POST to the
\* collection otherwise.
C5_OneMutationPerSubmit ==
    /\ [](CanSubmit /\ ~AnyFieldEmpty /\ mutations < MaxMutations =>
             ENABLED (Next /\ SubmitIssued))
    /\ [][\A q \in NewRequests :
            (q.caller = "handleSubmit" /\ q.method # "GET") =>
                /\ NewRequests = {q}
                /\ ~AnyFieldEmpty
                /\ q.method = IF editingBook # NullBook THEN "PUT" ELSE "POST"
                /\ q.id = IF editingBook # NullBook THEN editingBook.id ELSE 0
                /\ q.status = "pending"]_vars

\* an update of the record being edited awaits its response
C5_Witness ==
    \E q \in reqs :
        /\ q.method = "PUT" /\ q.status = "pending"
        /\ editingBook # NullBook /\ q.id = editingBook.id

-----------------------------------------------------------------------------
(* C6 *)

\* the draft is the one whose submit issued request r
DraftOf(r) ==
    /\ r.body.book_name = formData.book_name
    /\ r.body.author_name = formData.author_name
    /\ r.body.isbn = parseInt(formData.isbn)
    /\ r.id = IF editingBook # NullBook THEN editingBook.id ELSE 0

\* C6 (as claimed): a draft is discarded (form closed, no record being
\* edited, fields empty) only by Cancel or by the end of a successful submit
\* of that same draft.
C6_DiscardOnlyOwnDraft ==
    [][(~Discarded(isFormOpen, editingBook, formData)
          /\ Discarded(isFormOpen', editingBook', formData')) =>
            \/ UNCHANGED <<reqs, books, loading, error>>
            \/ \E r \in reqs : /\ r.caller = "handleSubmit"
                               /\ r.method = "GET"
                               /\ Consumed(r)
                               /\ DraftOf(r)]_vars

-----------------------------------------------------------------------------
(* C7 *)

\* C7: the step that consumes a failed response to a POST or PUT sets the
\* error to the save-failure message, issues no request, and leaves the
\* form's open state, the record being edited, the draft and books unchanged.
C7_FailedSubmit ==
    [][\A r \in reqs :
          (r.method \in {"POST", "PUT"} /\ r.status = "failed" /\ Consumed(r)) =>
              /\ error' = MsgSave
              /\ NewRequests = {}
              /\ gets' = gets
              /\ UNCHANGED <<isFormOpen, editingBook, formData, books>>]_vars

\* an update has failed and the form is still open on the record with its
\* draft
C7_Witness ==
    /\ error = MsgSave
    /\ isFormOpen /\ editingBook # NullBook /\ ~AnyFieldEmpty
    /\ reqs = {} /\ mutations = 1 /\ okMutations = 0 /\ gets = 1

-----------------------------------------------------------------------------
(* C8 *)

\* C8: books is empty initially and changes only in the step that consumes a
\* successful response to GET /books, where it becomes that response.
C8_BooksOnlyFromFetch ==
    /\ books = {}
    /\ [][/\ books' # books =>
               \E r \in reqs : /\ r.method = "GET" /\ r.status = "ok"
                               /\ Consumed(r)
                               /\ books' = r.data
          /\ \A r \in reqs :
               (r.method = "GET" /\ r.status = "ok" /\ Consumed(r)) =>
                   books' = r.data]_vars

\* a delete has failed and the list displayed before is still displayed
C8_Witness ==
    /\ books # {}
    /\ error = MsgDelete
    /\ reqs = {} /\ mutations = 1 /\ okMutations = 0

-----------------------------------------------------------------------------
(* C9 *)

\* C9: a delete that is not confirmed issues no request and changes none of
\* the component's state; a confirmed delete issues exactly one request, a
\* DELETE addressed to the id of a displayed record.
C9_DeleteConfirmation ==
    [][/\ (lastConfirm' = "declined" /\ lastConfirm # "declined") =>
            /\ NewRequests = {}
            /\ UNCHANGED <<books, isFormOpen, editingBook, formData, loading,
                           error, reqs, counters>>
       /\ (lastConfirm' = "confirmed" /\ lastConfirm # "confirmed") =>
            \E q \in NewRequests : q.method = "DELETE"
       /\ \A q \in NewRequests :
            q.method = "DELETE" =>
                /\ NewRequests = {q}
                /\ lastConfirm' = "confirmed"
                /\ \E b \in books : b.id = q.id
                /\ q.status = "pending"]_vars

\* the confirmation of a delete has been declined and nothing was requested
C9_Witness ==
    /\ lastConfirm = "declined"
    /\ books # {}
    /\ reqs = {} /\ mutations = 0 /\ ~loading /\ error = ""

-----------------------------------------------------------------------------
(* C10 *)

\* C10: GET /books is issued once by the mount effect and once in the step
\* that consumes a success response to a mutation, and at no other step.
C10_RefreshExactlyOnce ==
    /\ [](gets = (IF mounted THEN 1 ELSE 0) + okMutations)
    /\ [][/\ \A q \in NewRequests :
               q.method = "GET" =>
                   /\ NewRequests = {q}
                   /\ \/ ~mounted /\ mounted'
                      \/ \E r \in reqs : /\ r.method \in MutationMethods
                                         /\ r.status = "ok"
                                         /\ Consumed(r)
          /\ \A r \in reqs :
               (r.method \in MutationMethods /\ r.status = "ok" /\ Consumed(r))
                   => \E q \in NewRequests : q.method = "GET"
          /\ (~mounted /\ mounted') => \E q \in NewRequests : q.method = "GET"]_vars

\* one mutation has succeeded and was followed by its refresh, another has
\* failed and was not
C10_Witness ==
    /\ mounted
    /\ mutations = 2 /\ okMutations = 1 /\ gets = 2
    /\ reqs = {}

-----------------------------------------------------------------------------
(* C11 *)

\* C11 (as claimed): whenever a request issued by the client has not yet
\* been answered to its handler, the loading flag is true.
C11_BusyCoversPending == reqs # {} => loading

-----------------------------------------------------------------------------
(* C12 *)

\* the form is open for create with an empty draft
Creating(open, eb, fd) ==
    open /\ eb = NullBook
         /\ fd.book_name = "" /\ fd.author_name = "" /\ fd.isbn = <<>>

\* in every reachable state where the form is closed, the draft is empty and
\* no record is being edited
C12_ClosedIsClean ==
    ~isFormOpen => Discarded(isFormOpen, editingBook, formData)

\* cancel and the end of a successful submit always result in the closed
\* state with the draft empty and no record being edited
C12_CloseResets ==
    /\ ~ENABLED (resetForm /\ ~Discarded(isFormOpen', editingBook', formData'))
    /\ ~ENABLED (\E r \in reqs :
                    /\ SubmitRefreshDone(r)
                    /\ ~Discarded(isFormOpen', editingBook', formData'))

-----------------------------------------------------------------------------
(* C13 *)

\* the startup fetch has failed and nothing has been requested since
StartupFailed ==
    mounted /\ gets = 1 /\ mutations = 0 /\ reqs = {} /\ error = MsgLoad

\* C13: the step that consumes a failed response to the startup fetch ends
\* with an empty list, a non-empty error and the busy flag cleared; in the
\* resulting state the form can be opened and, once its draft is filled, a
\* submit can be started.
C13_StartupFailure ==
    /\ [][\A r \in reqs :
            (r.caller = "useEffect" /\ r.status = "failed" /\ Consumed(r)) =>
                /\ books' = {}
                /\ error' # ""
                /\ ~loading'
                /\ reqs' = {}]_vars
    /\ [](StartupFailed =>
             /\ books = {} /\ ~loading
             /\ ~isFormOpen => ENABLED (Next /\ isFormOpen' /\ UNCHANGED reqs)
             /\ (isFormOpen /\ ~AnyFieldEmpty) => ENABLED (Next /\ SubmitIssued))

\* the startup fetch has failed, the user has done nothing
C13_Witness ==
    /\ StartupFailed
    /\ books = {} /\ ~loading /\ ~isFormOpen /\ lastConfirm = "none"

-----------------------------------------------------------------------------
(* Editing: the component over a range of ISBN values and ISBN texts *)

\* the ISBN of the record the server holds when the page is opened
EditIsbns == {0, 7, 12, 305, 0 - 4, 9780}

\* texts typed into the ISBN field
EditIsbnTexts == { <<>>, <<"7">>, <<"-", "4">>, <<".", "5">>,
                   <<"1", "e", "5">> }

InitEdit ==
    /\ books = {}
    /\ isFormOpen = FALSE
    /\ editingBook = NullBook
    /\ formData = EmptyForm
    /\ loading = FALSE
    /\ error = ""
    /\ mounted = FALSE
    /\ reqs = {}
    /\ mutations = 0
    /\ gets = 0
    /\ okMutations = 0
    /\ \E n \in EditIsbns :
          server = {[id |-> 1, book_name |-> "Emma", author_name |-> "Herbert",
                     isbn |-> n]}
    /\ nextId = 2
    /\ lastConfirm = "none"

\* load, edit, type, submit, and the success path of the submit
NextEdit ==
    \/ Mount
    \/ \E b \in books : handleEdit(b)
    \/ resetForm
    \/ \E v \in BookNames : ChangeBookName(v)
    \/ \E v \in AuthorNames : ChangeAuthorName(v)
    \/ \E v \in EditIsbnTexts : ChangeIsbn(v)
    \/ SubmitInvalid
    \/ SubmitValid
    \/ \E r \in reqs : ServerOk(r)
    \/ \E r \in reqs : ServerStatusError(r)
    \/ \E r \in reqs : StartupFetchDone(r)
    \/ \E r \in reqs : SubmitRefreshDone(r)
    \/ \E r \in reqs : SubmitResponse(r)

SpecEdit == InitEdit /\ [][NextEdit]_vars

-----------------------------------------------------------------------------
(* C14 *)

\* C14: handleEdit sets the record being edited to a displayed record, the
\* draft to its name, author and ISBN as text, and opens the form.  A submit
\* in editing state sends a PUT to that record's id with the draft's name and
\* author and the parsed ISBN text; every field of the draft that still is
\* what handleEdit put there is sent with the record's own value.
C14_EditRoundTrip ==
    [][/\ (editingBook' # editingBook /\ editingBook' # NullBook) =>
            /\ editingBook' \in books
            /\ isFormOpen'
            /\ formData'.book_name = editingBook'.book_name
            /\ formData'.author_name = editingBook'.author_name
            /\ formData'.isbn = toString(editingBook'.isbn)
       /\ \A q \in NewRequests :
            (q.caller = "handleSubmit" /\ q.method # "GET"
                /\ editingBook # NullBook) =>
                /\ q.method = "PUT"
                /\ q.id = editingBook.id
                /\ q.body.book_name = formData.book_name
                /\ q.body.author_name = formData.author_name
                /\ q.body.isbn = parseInt(formData.isbn)
                /\ formData.book_name = editingBook.book_name =>
                       q.body.book_name = editingBook.book_name
                /\ formData.author_name = editingBook.author_name =>
                       q.body.author_name = editingBook.author_name
                /\ formData.isbn = toString(editingBook.isbn) =>
                       q.body.isbn = editingBook.isbn]_vars

\* an update that changes only the name of a record awaits its response: its
\* author and ISBN are the record's
C14_Witness ==
    \E q \in reqs :
        /\ q.method = "PUT" /\ q.status = "pending" /\ q.id = editingBook.id
        /\ q.body.book_name = "Dune" /\ editingBook.book_name = "Emma"
        /\ q.body.author_name = editingBook.author_name
        /\ q.body.isbn = editingBook.isbn
        /\ editingBook.isbn = 0 - 4

-----------------------------------------------------------------------------
(* C15 *)

\* some awaited request receives its response, a success or a failure
Respond ==
    \E r \in reqs : ServerOk(r) \/ ServerStatusError(r) \/ TransportError(r)

\* the handler that awaits a response that has arrived runs on from its await
\* (the event loop runs the continuation of a settled promise)
Resume ==
    \E r \in reqs :
        \/ StartupFetchDone(r)
        \/ SubmitRefreshDone(r)
        \/ DeleteRefreshDone(r)
        \/ SubmitResponse(r)
        \/ DeleteResponse(r)

\* The component under the hypothesis that every request is answered: an
\* awaited request does not stay unanswered for ever and an answered one does
\* not stay unconsumed for ever.  The user's actions are under no fairness:
\* the user may stop at any point.
LiveSpec == Init /\ [][Next]_vars /\ WF_vars(Respond) /\ WF_vars(Resume)

\* C15: when every request is answered, whenever the busy flag is set it is
\* cleared again, and once the user starts no further operation every started
\* fetch, submit and delete has finished (no request is awaited) and the busy
\* flag stays false, on the success paths and the failure paths alike.
C15_BusyReleased ==
    /\ loading ~> ~loading
    /\ (reqs # {}) ~> (reqs = {} /\ ~loading)
    /\ <>[](reqs = {} /\ ~loading)

\* a mutation that succeeded with its refresh and a mutation that failed have
\* both finished, and the busy flag is clear
C15_Witness ==
    /\ ~loading
    /\ reqs = {}
    /\ mutations = 2
    /\ okMutations = 1
    /\ gets = 2
    /\ error # ""

====
